---- MODULE Spec2Model ----
(***************************************************************************)
(* Model of tools/package-application.py: the packaging workflow of        *)
(* main() (clean, configure, build, package, extract, test, copy) together *)
(* with the build directory, the archives in it, the extraction            *)
(* directories and the output directory it acts on.                        *)
(*                                                                         *)
(* File names are records [stem, exts]: the name is stem, then "." and an  *)
(* extension for every element of exts ("a.tar.gz" is stem "a" with exts   *)
(* <<"tar","gz">>, ".zip" is stem "" with exts <<"zip">>).  Stems and      *)
(* extensions contain no dot and extensions are not empty.  Matching is    *)
(* case-sensitive, as pathlib's is on POSIX hosts.                         *)
(***************************************************************************)
EXTENDS Integers, Sequences, FiniteSets, TLC

\* ------------------------------------------------------------------ bounds
\* number of times the caller runs the tool against the same directories
MaxRuns == 2

\* ------------------------------------------------------------------- names
Nm(stem, exts) == [stem |-> stem, exts |-> exts]

NoFile == Nm("", <<>>)

\* pathlib PurePath.suffix: the text from the last dot of the name on, empty
\* when the name has no dot, or only a leading one
Suffix(name) ==
    IF name.exts = <<>> THEN <<>>
    ELSE IF name.stem = "" /\ Len(name.exts) = 1 THEN <<>>
    ELSE <<name.exts[Len(name.exts)]>>

\* Path.glob("*" + "." + e1 + "." + e2 ...): the name ends with the literal
\* tail of the pattern; "*" also matches the empty text and a leading dot
GlobMatch(name, pat) ==
    /\ Len(name.exts) >= Len(pat)
    /\ SubSeq(name.exts, Len(name.exts) - Len(pat) + 1, Len(name.exts)) = pat

PatTarGz == <<"tar", "gz">>
PatZip == <<"zip">>

\* the reversed priority order
PackagePatternsZipFirst == <<PatZip, PatTarGz>>

\* package_patterns of create_package
PackagePatterns == <<PatTarGz, PatZip>>

\* ------------------------------------------------------------------- trees
\* A directory tree is the set of its directories and of its regular files
\* (paths relative to the root, as sequences of names), the entries whose
\* execute bit is set, and the files whose bytes do not decode as text.
nApp == Nm("my_app", <<>>)
nBin == Nm("bin", <<>>)
nPlugins == Nm("plugins", <<>>)
nConfig == Nm("config", <<>>)
nReadme == Nm("README", <<"txt">>)
nExe == Nm("app", <<>>)
nLib == Nm("libp", <<"so">>)
nJson == Nm("app", <<"json">>)
\* the build directory, taken to be /build
nBuild == Nm("build", <<>>)

EmptyTree == [dirs |-> {}, files |-> {}, exec |-> {}, bad |-> {}]

\* my_app/bin/app and my_app/README.txt
TreeFull ==
    [dirs |-> {<<nApp>>, <<nApp, nBin>>},
     files |-> {<<nApp, nBin, nExe>>, <<nApp, nReadme>>},
     exec |-> {<<nApp, nBin, nExe>>},
     bad |-> {}]

\* my_app/plugins/libp.so, my_app/config/app.json: no bin/, no README.txt
TreeNoBin ==
    [dirs |-> {<<nApp>>, <<nApp, nPlugins>>, <<nApp, nConfig>>},
     files |-> {<<nApp, nPlugins, nLib>>, <<nApp, nConfig, nJson>>},
     exec |-> {},
     bad |-> {}]

\* README.txt and an executable directly in the root: no directory at all
TreeFlat ==
    [dirs |-> {},
     files |-> {<<nReadme>>, <<nExe>>},
     exec |-> {<<nExe>>},
     bad |-> {}]

\* my_app/bin/app and a my_app/README.txt that is not text
TreeBadReadme ==
    [dirs |-> {<<nApp>>, <<nApp, nBin>>},
     files |-> {<<nApp, nBin, nExe>>, <<nApp, nReadme>>},
     exec |-> {<<nApp, nBin, nExe>>},
     bad |-> {<<nApp, nReadme>>}]

\* my_app/bin/app and nothing else
TreeBinOnly ==
    [dirs |-> {<<nApp>>, <<nApp, nBin>>},
     files |-> {<<nApp, nBin, nExe>>},
     exec |-> {<<nApp, nBin, nExe>>},
     bad |-> {}]

\* my_app/bin/my_app and my_app/README.txt
TreeMyApp ==
    [dirs |-> {<<nApp>>, <<nApp, nBin>>},
     files |-> {<<nApp, nBin, nApp>>, <<nApp, nReadme>>},
     exec |-> {<<nApp, nBin, nApp>>},
     bad |-> {}]

\* ------------------------------------------------------------------- files
NoFiles == [n \in {} |-> EmptyTree]

\* the content of a file of the build directory: the container format its
\* bytes really have, the tree packed in it under relative member names, and
\* the members named by an absolute path into the build directory (the file
\* each names, with the bytes the member carries)
Body(fmt, tree) == [fmt |-> fmt, tree |-> tree, abs |-> NoFiles]

WithAbs(body, members) == [body EXCEPT !.abs = members]

fTarGz == Nm("a", <<"tar", "gz">>)
fZip == Nm("a", <<"zip">>)
fDotZip == Nm("", <<"zip">>)
\* my_app-1.0.0.tar.gz
fMyApp == Nm("my_app-1", <<"0", "0", "tar", "gz">>)

\* what one run of the packaging target may leave in the build directory
Products ==
    { NoFiles,
      fTarGz :> Body("tgz", TreeFull),
      fTarGz :> Body("tgz", TreeFlat),
      fTarGz :> Body("tgz", TreeBinOnly),
      fTarGz :> Body("junk", EmptyTree),
      fZip :> Body("zip", TreeNoBin),
      fZip :> Body("zip", TreeBadReadme),
      fDotZip :> Body("zip", TreeFull),
      fTarGz :> WithAbs(Body("tgz", TreeBinOnly), fZip :> Body("zip", TreeFull)),
      (fTarGz :> Body("tgz", TreeFull)) @@ (fZip :> Body("zip", TreeFull)) }

\* what the packaging target of a build system that works leaves:
\* my_app-1.0.0.tar.gz with my_app/bin/my_app and my_app/README.txt
StubProducts == { fMyApp :> Body("tgz", TreeMyApp) }

\* the build directory before the first run: absent, or left by earlier work
InitialBuildDirs ==
    { [exists |-> FALSE, cache |-> FALSE, files |-> NoFiles],
      [exists |-> TRUE, cache |-> TRUE, files |-> NoFiles],
      [exists |-> TRUE, cache |-> TRUE, files |-> fZip :> Body("zip", TreeFull)] }

\* the output directory before the first run
InitialOutDirs ==
    { [exists |-> FALSE, files |-> NoFiles],
      [exists |-> TRUE, files |-> fTarGz :> Body("tgz", TreeNoBin)] }

\* ------------------------------------------------------ directory queries
\* Path.exists
Exists(tree, p) == p \in tree.dirs \cup tree.files

\* the entries directly inside p: Path.iterdir, Path.glob("*")
Children(tree, p) ==
    {q \in tree.dirs \cup tree.files :
        Len(q) = Len(p) + 1 /\ SubSeq(q, 1, Len(p)) = p}

\* the regular files anywhere below p: Path.rglob("*") filtered by is_file
FilesBelow(tree, p) ==
    {q \in tree.files : Len(q) > Len(p) /\ SubSeq(q, 1, Len(p)) = p}

\* the entries of the extraction root, directories or not
SubDirsUnfiltered(tree) == {d \in tree.dirs \cup tree.files : Len(d) = 1}

\* subdirs of test_package: the directories directly in the extraction root
SubDirs(tree) == {d \in tree.dirs : Len(d) = 1}

\* ------------------------------------------------------------ test_package
Finding(rule, sev, count) == [rule |-> rule, sev |-> sev, count |-> count]

NoReport ==
    [ran |-> FALSE, found |-> FALSE, raised |-> FALSE, errors |-> 0,
     findings |-> <<>>, result |-> FALSE]

\* test_package when the extraction root has no subdirectory
NoPackageDirectory ==
    [ran |-> TRUE, found |-> FALSE, raised |-> FALSE, errors |-> 0,
     findings |-> <<Finding("package", "fail", 0)>>, result |-> FALSE]

PluginPatterns == {<<"so">>, <<"dll">>, <<"dylib">>}

BinFinding(tree, pkg) ==
    IF ~Exists(tree, pkg \o <<nBin>>)
    THEN <<Finding("bin", "warn", 0)>>
    ELSE <<Finding("bin", "pass",
            Cardinality({e \in Children(tree, pkg \o <<nBin>>) : e \in tree.exec}))>>

\* a missing plugins/ reported as a warning
PluginsFindingWarn(tree, pkg) ==
    IF Exists(tree, pkg \o <<nPlugins>>)
    THEN <<Finding("plugins", "pass",
            Cardinality({e \in Children(tree, pkg \o <<nPlugins>>) :
                \E pat \in PluginPatterns : GlobMatch(e[Len(e)], pat)}))>>
    ELSE <<Finding("plugins", "warn", 0)>>

PluginsFinding(tree, pkg) ==
    IF Exists(tree, pkg \o <<nPlugins>>)
    THEN <<Finding("plugins", "pass",
            Cardinality({e \in Children(tree, pkg \o <<nPlugins>>) :
                \E pat \in PluginPatterns : GlobMatch(e[Len(e)], pat)}))>>
    ELSE <<>>

ConfigFinding(tree, pkg) ==
    IF Exists(tree, pkg \o <<nConfig>>)
    THEN <<Finding("config", "pass",
            Cardinality(FilesBelow(tree, pkg \o <<nConfig>>)))>>
    ELSE <<>>

ReadmeFinding(tree, pkg) ==
    IF Exists(tree, pkg \o <<nReadme>>)
    THEN <<Finding("readme", "pass", 0)>>
    ELSE <<Finding("readme", "warn", 0)>>

\* open(readme) and readlines raise: README.txt is a directory or not text
ReadmeRaises(tree, pkg) ==
    /\ Exists(tree, pkg \o <<nReadme>>)
    /\ pkg \o <<nReadme>> \in tree.dirs \cup tree.bad

\* test_package with package_dir = pkg, one of the subdirectories
TestPackage(tree, pkg) ==
    LET errors == IF Exists(tree, pkg \o <<nBin>>) THEN 0 ELSE 1
    IN [ran |-> TRUE, found |-> TRUE,
        raised |-> ReadmeRaises(tree, pkg),
        errors |-> errors,
        findings |-> <<Finding("package", "pass", 0)>>
                     \o BinFinding(tree, pkg) \o PluginsFinding(tree, pkg)
                     \o ConfigFinding(tree, pkg) \o ReadmeFinding(tree, pkg),
        result |-> errors = 0]

\* --------------------------------------------------------- extract_package
\* the branch extract_package takes for a file name
ExtractBranch(name) ==
    IF Suffix(name) = <<"gz">> THEN "tar"
    ELSE IF Suffix(name) = <<"zip">> THEN "zip"
    ELSE "unknown"

\* "unknown": returns None; "raised": tarfile/zipfile cannot read the file;
\* "ok": the tree is unpacked
ExtractOutcome(name, body) ==
    IF ExtractBranch(name) = "unknown" THEN "unknown"
    ELSE IF ExtractBranch(name) = "tar" /\ body.fmt = "tgz" THEN "ok"
    ELSE IF ExtractBranch(name) = "zip" /\ body.fmt = "zip" THEN "ok"
    ELSE "raised"

\* the default extraction filter of tarfile: none up to Python 3.13
\* (members are written where their names say), "data" from 3.14 on (the
\* leading slash of a member name is dropped)
TarFilters == {"fully_trusted", "data"}

\* the files extractall writes outside the directory it is given: tarfile
\* joins the directory and the member name, and an absolute name wins;
\* zipfile always drops the leading slash
WrittenOutside(name, body, filter) ==
    IF ExtractBranch(name) = "tar" /\ filter = "fully_trusted"
    THEN body.abs
    ELSE NoFiles

\* the tree extractall leaves in the directory it is given: tarfile restores
\* the members' modes, zipfile creates every file without execute bits; a
\* member whose leading slash was dropped lands below the directory
ExtractedTree(name, body, filter) ==
    LET inside == DOMAIN body.abs \ DOMAIN WrittenOutside(name, body, filter)
        tree == IF ExtractBranch(name) = "zip"
                THEN [body.tree EXCEPT !.exec = {}]
                ELSE body.tree
    IN [tree EXCEPT !.dirs = @ \cup (IF inside = {} THEN {} ELSE {<<nBuild>>}),
                    !.files = @ \cup {<<nBuild, n>> : n \in inside}]

\* ---------------------------------------------------------- create_package
\* the files packages[0] can be: those matching the first pattern that
\* matches anything, in whatever order glob lists them
FindPackage(names) ==
    LET hit == {i \in 1..Len(PackagePatterns) :
                    \E n \in names : GlobMatch(n, PackagePatterns[i])}
    IN IF hit = {} THEN {}
       ELSE LET first == CHOOSE i \in hit : \A j \in hit : i <= j
            IN {n \in names : GlobMatch(n, PackagePatterns[first])}

\* -------------------------------------------------------------------- main
Stages ==
    <<"Cleaning", "Configuring", "Building", "Packaging", "Extracting",
      "Validating", "Publishing">>

Terminal == {"Done", "Failed"}

\* target names are sequences of characters
Prefix == <<"p", "a", "c", "k", "a", "g", "e", "-">>
tMyApp == <<"m", "y", "_", "a", "p", "p">>
tPackageMyApp == Prefix \o tMyApp
tPackage == <<"p", "a", "c", "k", "a", "g", "e">>
tTwice == Prefix \o Prefix \o <<"x">>
tEmpty == <<>>

\* the -t values: of the runs against any build system, of the runs against
\* one that works, and of argument resolution alone
Targets == {tMyApp}
StubTargets == {tMyApp, tPackageMyApp}
MoreTargets == {tMyApp, tPackageMyApp, tPackage, tTwice, tEmpty, Prefix}

\* the -j values: the default, which the runs against any build system
\* keep, and those of the other runs (argparse's type=int accepts any integer)
JobCounts == {0}
MoreJobCounts == {-1, 0, 2}

\* what get_cpu_count returns: on the host of the runs against any build
\* system, and on any host
CpuCounts == {4}
MoreCpuCounts == {1, 4}

Flags == [clean : BOOLEAN, extract : BOOLEAN, test : BOOLEAN, output : BOOLEAN]

MkArgs(f, target, jobs) ==
    [clean |-> f.clean, extract |-> f.extract, test |-> f.test,
     output |-> f.output, target |-> target, jobs |-> jobs]

Args == {MkArgs(f, t, j) : f \in Flags, t \in Targets, j \in JobCounts}

StubArgs ==
    {MkArgs(f, t, j) : f \in Flags, t \in StubTargets, j \in MoreJobCounts}

MoreArgs ==
    {MkArgs(f, t, j) : f \in Flags, t \in MoreTargets, j \in MoreJobCounts}

NoCfg ==
    [clean |-> FALSE, extract |-> FALSE, test |-> FALSE, output |-> FALSE,
     target |-> <<>>, jobs |-> 0]

\* str.startswith
StartsWith(s, p) == Len(s) >= Len(p) /\ SubSeq(s, 1, Len(p)) = p

\* the prefix prepended whether or not it is there
NormalizeTargetAlways(target) == Prefix \o target

\* the target left as given
NormalizeTargetNever(target) == target

\* "if not args.target.startswith('package-'): args.target = 'package-' + ..."
NormalizeTarget(target) ==
    IF ~StartsWith(target, Prefix) THEN Prefix \o target ELSE target

\* "if args.jobs == 0: args.jobs = get_cpu_count()"
ResolveJobs(jobs, cpus) == IF jobs = 0 THEN cpus ELSE jobs

\* test without the implied extract
ResolveTestOnly(args) == args

\* "if args.test: args.extract = True"
Resolve(args) == [args EXCEPT !.extract = args.extract \/ args.test]

\* args as main has changed them when the try block starts
Resolved(args, cpus) ==
    [Resolve(args) EXCEPT !.target = NormalizeTarget(args.target),
                          !.jobs = ResolveJobs(args.jobs, cpus)]

\* "if args.clean: clean_build_directory(build_dir)"
AfterStart(c) == IF c.clean THEN "Cleaning" ELSE "Configuring"

\* configure without looking for the cache file
NeedsConfigureAlways(cache) == TRUE

\* "if not cache_file.exists()"
NeedsConfigure(cache) == ~cache

\* the build skipped when the configuration is already there
AfterCachedConfigureSkipBuild == "Packaging"

\* "Using existing CMake configuration", then build_project
AfterCachedConfigure == "Building"

\* a clean that removes the archives and keeps the configuration
CleanDirKeepCache(b) == [b EXCEPT !.files = NoFiles]

\* a clean that empties the directory and keeps it
CleanDirKeepDir(b) ==
    IF b.exists THEN [exists |-> TRUE, cache |-> FALSE, files |-> NoFiles] ELSE b

\* "if build_dir.exists(): shutil.rmtree(build_dir)"
CleanDir(b) ==
    IF b.exists THEN [exists |-> FALSE, cache |-> FALSE, files |-> NoFiles] ELSE b

\* subprocess.run without check=True: only a command that cannot be started
\* raises
AfterCommandNoCheck(res, next) == IF res = "missing" THEN "Failed" ELSE next

\* a command whose exit status is not checked
AfterCommandUnchecked(res, next) == next

\* subprocess.run(check=True) and the except clauses of main
AfterCommand(res, next) == IF res = "ok" THEN next ELSE "Failed"

\* "if output_dir: copy_to_output(...)", then "return 0"
AfterVerify(c) == IF c.output THEN "Publishing" ELSE "Done"

\* "if args.test and extract_dir: test_package(extract_dir)"
AfterExtract(c, extracted) ==
    IF c.test /\ extracted THEN "Validating" ELSE AfterVerify(c)

\* a missing package file that is not treated as an error
AfterPackageNoCheck(c, found) ==
    IF ~found THEN "Done"
    ELSE IF c.extract THEN "Extracting"
    ELSE IF c.output THEN "Publishing" ELSE "Done"

\* "if not package_file: return 1", then "if args.extract:"
AfterPackage(c, found) ==
    IF ~found THEN "Failed"
    ELSE IF c.extract THEN "Extracting"
    ELSE AfterExtract(c, FALSE)

\* extraction repeated when test_package returns False
AfterValidateRetry(c, result) ==
    IF result THEN (IF c.output THEN "Publishing" ELSE "Done") ELSE "Extracting"

\* main returning 1 when test_package returns False
AfterValidateStrict(c, result) ==
    IF result THEN (IF c.output THEN "Publishing" ELSE "Done") ELSE "Failed"

\* the value test_package returns is not used
AfterValidate(c, result) == AfterVerify(c)

\* the value main returns
ExitStatus(p) == IF p = "Done" THEN 0 ELSE IF p = "Failed" THEN 1 ELSE -1

Results == {"ok", "nonzero", "missing"}

\* a cmake command line: what it does, the --target and -j it carries
\* (<<>> and 0 when it carries none), and how it ended
Command(cmd, res, target, jobs) ==
    [cmd |-> cmd, res |-> res, target |-> target, jobs |-> jobs]

\* the lines the print calls without file=sys.stderr write: the README
\* block of test_package (the first rule is printed before open raises)
ReadmeStdout(rep) ==
    IF \E i \in 1..Len(rep.findings) : rep.findings[i] = Finding("readme", "pass", 0)
    THEN (IF rep.raised THEN 1 ELSE 3)
    ELSE 0

\* ------------------------------------------------------------------- state
VARIABLES
    pc,             \* the stage main is about to execute, or Idle/Done/Failed
    argv,           \* args as parse_args returned them
    cfg,            \* args after main has resolved them
    bd,             \* the build directory: exists, cache (CMakeCache.txt), files
    out,            \* the output directory: exists, files
    tmpDirs,        \* the directories mkdtemp has created, oldest first
    cmds,           \* the cmake commands this run has issued, with their results
    trace,          \* the stages this run has executed, then Done or Failed
    failed,         \* the stages of this run that did not succeed
    rc,             \* the value main returned, -1 while it runs
    packaged,       \* the names this run's packaging command has written
    artifact,       \* package_file, NoFile while there is none
    extractDir,     \* extract_dir as an index into tmpDirs, 0 for None
    report,         \* what test_package found
    published,      \* copy_to_output has copied the package in this run
    stdoutLines,    \* lines this run has written to standard output
    cfgSinceClean,  \* configure commands issued since the last clean
    runs            \* runs started so far

vars ==
    <<pc, argv, cfg, bd, out, tmpDirs, cmds, trace, failed, rc, packaged,
      artifact, extractDir, report, published, stdoutLines, cfgSinceClean, runs>>

Init ==
    /\ pc = "Idle"
    /\ argv = NoCfg
    /\ cfg = NoCfg
    /\ bd \in InitialBuildDirs
    /\ out \in InitialOutDirs
    /\ tmpDirs = <<>>
    /\ cmds = <<>>
    /\ trace = <<>>
    /\ failed = {}
    /\ rc = -1
    /\ packaged = {}
    /\ artifact = NoFile
    /\ extractDir = 0
    /\ report = NoReport
    /\ published = FALSE
    /\ stdoutLines = 0
    /\ cfgSinceClean = 0
    /\ runs = 1

\* the stage at pc has executed, writing printed lines to standard output,
\* and main goes on at next; print("") precedes "Packaging complete!"
Advance(next, printed) ==
    /\ pc' = next
    /\ trace' = IF next \in Terminal THEN trace \o <<pc, next>> ELSE Append(trace, pc)
    /\ rc' = ExitStatus(next)
    /\ stdoutLines' = stdoutLines + printed + (IF next = "Done" THEN 1 ELSE 0)

\* main up to the try block: parse and resolve the arguments, print the
\* banner and the print("") that ends it
StartWith(argSet, cpuSet) ==
    /\ pc = "Idle"
    /\ \E args \in argSet, cpus \in cpuSet :
        /\ argv' = args
        /\ cfg' = Resolved(args, cpus)
        /\ pc' = AfterStart(Resolved(args, cpus))
    /\ stdoutLines' = stdoutLines + 1
    /\ UNCHANGED <<bd, out, tmpDirs, cmds, trace, failed, rc, packaged,
                   artifact, extractDir, report, published, cfgSinceClean,
                   runs>>

\* clean_build_directory; rmtree may raise (ok = FALSE)
CleanWith(oks) ==
    /\ pc = "Cleaning"
    /\ \E ok \in IF bd.exists THEN oks ELSE {TRUE} :
        /\ bd' = IF ok THEN CleanDir(bd) ELSE bd
        /\ failed' = IF ok THEN failed ELSE failed \cup {pc}
        /\ Advance(IF ok THEN "Configuring" ELSE "Failed", 0)
    /\ cfgSinceClean' = 0
    /\ UNCHANGED <<argv, cfg, out, tmpDirs, cmds, packaged, artifact,
                   extractDir, report, published, runs>>

\* configure_cmake; mkdir may raise (made = FALSE); a cmake that exits nonzero
\* may or may not have written CMakeCache.txt, one that exits 0 has, one that
\* is not found has not
ConfigureWith(mades, results) ==
    /\ pc = "Configuring"
    /\ IF NeedsConfigure(bd.cache)
       THEN \E made \in IF bd.exists THEN {TRUE} ELSE mades :
            IF made
            THEN \E res \in results :
                 \E marker \in IF res = "nonzero" THEN BOOLEAN ELSE {res = "ok"} :
                    /\ bd' = [bd EXCEPT !.exists = TRUE, !.cache = bd.cache \/ marker]
                    /\ cmds' = Append(cmds, Command("configure", res, <<>>, 0))
                    /\ cfgSinceClean' = cfgSinceClean + 1
                    /\ failed' = IF res = "ok" THEN failed ELSE failed \cup {pc}
                    /\ Advance(AfterCommand(res, "Building"), 0)
            ELSE /\ failed' = failed \cup {pc}
                 /\ Advance("Failed", 0)
                 /\ UNCHANGED <<bd, cmds, cfgSinceClean>>
       ELSE /\ Advance(AfterCachedConfigure, 0)
            /\ UNCHANGED <<bd, cmds, cfgSinceClean, failed>>
    /\ UNCHANGED <<argv, cfg, out, tmpDirs, packaged, artifact, extractDir,
                   report, published, runs>>

\* build_project
BuildWith(results) ==
    /\ pc = "Building"
    /\ \E res \in results :
        /\ cmds' = Append(cmds, Command("build", res, <<>>, cfg.jobs))
        /\ failed' = IF res = "ok" THEN failed ELSE failed \cup {pc}
        /\ Advance(AfterCommand(res, "Packaging"), 0)
    /\ UNCHANGED <<argv, cfg, bd, out, tmpDirs, packaged, artifact, extractDir,
                   report, published, cfgSinceClean, runs>>

\* create_package and the test of its result in main
PackageWith(results, products) ==
    /\ pc = "Packaging"
    /\ \E res \in results :
       \E prod \in IF res = "ok" THEN products ELSE {NoFiles} :
        LET files == prod @@ bd.files
            found == IF res = "ok" THEN FindPackage(DOMAIN files) ELSE {}
        IN /\ cmds' = Append(cmds, Command("package", res, cfg.target, 0))
           /\ bd' = [bd EXCEPT !.files = files]
           /\ packaged' = DOMAIN prod
           /\ \E f \in IF found = {} THEN {NoFile} ELSE found :
                /\ artifact' = f
                /\ failed' = IF f = NoFile THEN failed \cup {pc} ELSE failed
                /\ Advance(AfterCommand(res, AfterPackage(cfg, f # NoFile)), 0)
    /\ UNCHANGED <<argv, cfg, out, tmpDirs, extractDir, report, published,
                   cfgSinceClean, runs>>

\* extract_package, on an interpreter with one of the default filters
Extract ==
    /\ pc = "Extracting"
    /\ \E filter \in TarFilters :
        LET body == bd.files[artifact]
            outcome == ExtractOutcome(artifact, body)
        IN /\ tmpDirs' = Append(tmpDirs, IF outcome = "ok"
                                         THEN ExtractedTree(artifact, body, filter)
                                         ELSE EmptyTree)
           /\ bd' = IF outcome = "ok"
                     THEN [bd EXCEPT !.files = WrittenOutside(artifact, body, filter) @@ @]
                     ELSE bd
           /\ extractDir' = IF outcome = "ok" THEN Len(tmpDirs) + 1 ELSE 0
           /\ failed' = IF outcome = "ok" THEN failed ELSE failed \cup {pc}
           /\ Advance(IF outcome = "raised" THEN "Failed"
                      ELSE AfterExtract(cfg, outcome = "ok"), 0)
    /\ UNCHANGED <<argv, cfg, out, cmds, packaged, artifact, report, published,
                   cfgSinceClean, runs>>

\* test_package on the extracted tree
Validate ==
    /\ pc = "Validating"
    /\ LET tree == tmpDirs[extractDir]
       IN IF SubDirs(tree) = {}
          THEN /\ report' = NoPackageDirectory
               /\ failed' = failed \cup {pc}
               /\ Advance(AfterValidate(cfg, FALSE), 0)
          ELSE \E pkg \in SubDirs(tree) :
               /\ report' = TestPackage(tree, pkg)
               /\ failed' = IF report'.raised THEN failed \cup {pc} ELSE failed
               /\ Advance(IF report'.raised THEN "Failed"
                          ELSE AfterValidate(cfg, report'.result),
                          ReadmeStdout(report'))
    /\ UNCHANGED <<argv, cfg, bd, out, tmpDirs, cmds, packaged, artifact,
                   extractDir, published, cfgSinceClean, runs>>

\* copy_to_output; mkdir or copy2 may raise (ok = FALSE)
PublishWith(oks) ==
    /\ pc = "Publishing"
    /\ \E ok \in oks :
        /\ out' = IF ok
                  THEN [exists |-> TRUE,
                        files |-> (artifact :> bd.files[artifact]) @@ out.files]
                  ELSE out
        /\ published' = ok
        /\ failed' = IF ok THEN failed ELSE failed \cup {pc}
        /\ Advance(IF ok THEN "Done" ELSE "Failed", 0)
    /\ UNCHANGED <<argv, cfg, bd, tmpDirs, cmds, packaged, artifact,
                   extractDir, report, cfgSinceClean, runs>>

\* sys.exit(main()); the caller runs the tool again on the same directories
Rerun ==
    /\ pc \in Terminal
    /\ runs < MaxRuns
    /\ pc' = "Idle"
    /\ argv' = NoCfg
    /\ cfg' = NoCfg
    /\ cmds' = <<>>
    /\ trace' = <<>>
    /\ failed' = {}
    /\ rc' = -1
    /\ packaged' = {}
    /\ artifact' = NoFile
    /\ extractDir' = 0
    /\ report' = NoReport
    /\ published' = FALSE
    /\ stdoutLines' = 0
    /\ runs' = runs + 1
    /\ UNCHANGED <<bd, out, tmpDirs, cfgSinceClean>>

\* ------------------------------------------------- any build system and host
Start == StartWith(Args, CpuCounts)
Clean == CleanWith(BOOLEAN)
Configure == ConfigureWith(BOOLEAN, Results)
Build == BuildWith(Results)
Package == PackageWith(Results, Products)
Publish == PublishWith(BOOLEAN)

Next ==
    \/ Start
    \/ Clean
    \/ Configure
    \/ Build
    \/ Package
    \/ Extract
    \/ Validate
    \/ Publish
    \/ Rerun

Spec == Init /\ [][Next]_vars

\* ------------------------------------- a build system and a host that work
\* every cmake command is found and exits 0; configure writes the cache
\* marker, the packaging target writes my_app-1.0.0.tar.gz; no file
\* operation raises
StubStart == StartWith(StubArgs, MoreCpuCounts)
StubClean == CleanWith({TRUE})
StubConfigure == ConfigureWith({TRUE}, {"ok"})
StubBuild == BuildWith({"ok"})
StubPackage == PackageWith({"ok"}, StubProducts)
StubExtract == Extract
StubValidate == Validate
StubPublish == PublishWith({TRUE})
StubRerun == Rerun

\* the steps of main once it has started
StubRun ==
    \/ StubClean
    \/ StubConfigure
    \/ StubBuild
    \/ StubPackage
    \/ StubExtract
    \/ StubValidate
    \/ StubPublish

StubNext ==
    \/ StubStart
    \/ StubRun
    \/ StubRerun

\* main runs on until it returns: every stage blocks only on a command or a
\* file operation, which here all complete
StubSpec == Init /\ [][StubNext]_vars /\ WF_vars(StubRun)

\* ----------------------------------------------- argument resolution alone
\* the part of main before the try block, on any command line
ParseArgs == StartWith(MoreArgs, MoreCpuCounts)

ArgsSpec == Init /\ [][ParseArgs]_vars

\* ------------------------------------------------------------ properties
InTrace(stage) == \E i \in 1..Len(trace) : trace[i] = stage

\* position of a stage in the pipeline; Done and Failed come after all
StageIdx(s) ==
    IF \E i \in 1..Len(Stages) : Stages[i] = s
    THEN CHOOSE i \in 1..Len(Stages) : Stages[i] = s
    ELSE Len(Stages) + 1

LastCommandIs(cmd, res) ==
    /\ cmds # <<>>
    /\ cmds[Len(cmds)].cmd = cmd
    /\ cmds[Len(cmds)].res = res

NoArchiveIn(files) ==
    \A n \in DOMAIN files : ~GlobMatch(n, PatTarGz) /\ ~GlobMatch(n, PatZip)

NothingAfterPackaging ==
    /\ ~InTrace("Extracting") /\ ~InTrace("Validating") /\ ~InTrace("Publishing")
    /\ extractDir = 0
    /\ ~report.ran
    /\ ~published

\* C1: when main has returned, it returned 0 exactly when every stage it
\* executed succeeded, and 1 whenever a stage failed.
C1_ExitStatusReflectsStages ==
    pc \in Terminal =>
        /\ rc = 0 <=> failed = {}
        /\ failed # {} => rc = 1

\* C2: once the configure or the build command has failed, it is the last
\* command issued, the run is Failed with exit status 1, and no packaging,
\* artifact discovery, extraction, validation or copy has happened.
C2_FailFast ==
    \A i \in 1..Len(cmds) :
        (cmds[i].cmd \in {"configure", "build"} /\ cmds[i].res # "ok") =>
            /\ i = Len(cmds)
            /\ pc = "Failed"
            /\ rc = 1
            /\ ~InTrace("Packaging")
            /\ artifact = NoFile
            /\ NothingAfterPackaging

C2_Witness ==
    /\ pc = "Failed"
    /\ cfg.test /\ cfg.output
    /\ Len(cmds) = 2
    /\ cmds[1].cmd = "configure" /\ cmds[1].res = "ok"
    /\ cmds[2].cmd = "build" /\ cmds[2].res = "nonzero"

\* C3: the stages a run has executed are in pipeline order without
\* repetition, the stage about to run comes after all of them, and Done or
\* Failed is the last entry: nothing runs after it.
C3_StageOrder ==
    /\ \A i, j \in 1..Len(trace) : i < j => StageIdx(trace[i]) < StageIdx(trace[j])
    /\ \A i \in 1..Len(trace) : trace[i] \in Terminal => i = Len(trace)
    /\ pc \in Terminal <=> (trace # <<>> /\ trace[Len(trace)] = pc)
    /\ pc \notin Terminal => \A i \in 1..Len(trace) : StageIdx(trace[i]) < StageIdx(pc)

C3_Witness ==
    trace = <<"Cleaning", "Configuring", "Building", "Packaging", "Extracting",
              "Validating", "Publishing", "Done">>

\* C4: when the packaging command exited 0 and the build directory holds no
\* *.tar.gz and no *.zip file, the run is Failed with exit status 1 and
\* nothing was extracted, validated or copied.
C4_NoArtifactIsFatal ==
    (/\ cmds # <<>>
     /\ LastCommandIs("package", "ok")
     /\ NoArchiveIn(bd.files)) =>
        /\ pc = "Failed"
        /\ rc = 1
        /\ artifact = NoFile
        /\ NothingAfterPackaging

C4_Witness ==
    /\ pc = "Failed"
    /\ cfg.extract /\ cfg.output
    /\ cmds # <<>>
    /\ LastCommandIs("package", "ok")
    /\ NoArchiveIn(bd.files)

\* C5: when validation found no package directory in the extraction root,
\* the run is Failed with exit status 1 and Publishing was not executed.
C5_NoPackageDirectoryIsFatal ==
    (report.ran /\ ~report.found) =>
        /\ pc = "Failed"
        /\ rc = 1
        /\ ~InTrace("Publishing")
        /\ ~published

\* C6: when extraction failed (unknown format, or unreadable archive), the
\* run is Failed with exit status 1 and neither validation nor publishing ran.
C6_ExtractFailureIsFatal ==
    "Extracting" \in failed =>
        /\ pc = "Failed"
        /\ rc = 1
        /\ ~report.ran
        /\ ~InTrace("Validating") /\ ~InTrace("Publishing")
        /\ ~published

\* C7: when validation found the package directory and returned (whatever
\* else is missing or counted zero), the run goes on: Publishing is executed
\* exactly when an output directory was given, only a failing copy can make
\* the run Failed, and otherwise it reaches Done with exit status 0.
C7_WarningsAreNotFatal ==
    (report.ran /\ report.found /\ ~report.raised) =>
        /\ pc \in {"Publishing", "Done", "Failed"}
        /\ cfg.output <=> (pc = "Publishing" \/ InTrace("Publishing"))
        /\ pc = "Failed" => "Publishing" \in failed
        /\ pc = "Done" => rc = 0 /\ failed = {} /\ (cfg.output => published)

C7_Witness ==
    /\ pc = "Done" /\ rc = 0
    /\ published
    /\ report.ran /\ report.found
    /\ report.errors = 1
    /\ \E i \in 1..Len(report.findings) : report.findings[i] = Finding("bin", "warn", 0)
    /\ \E i \in 1..Len(report.findings) : report.findings[i] = Finding("readme", "warn", 0)

\* C8 as stated: between two cleans the external configure command is issued
\* at most once.
C8_ConfigureAtMostOnce == cfgSinceClean <= 1

\* C8 as amended: no step taken while the cache marker is present issues a
\* configure command (the count since the last clean stays, or a clean
\* resets it).
C8_ConfigureOnlyWithoutMarker ==
    [][bd.cache => cfgSinceClean' \in {cfgSinceClean, 0}]_vars

\* the second run found the marker the first run left, and issued nothing
C8_Witness ==
    /\ runs = 2
    /\ pc = "Building"
    /\ ~cfg.clean
    /\ cmds = <<>>
    /\ cfgSinceClean = 1

\* C9: the selected artifact is one file of the build directory matching
\* *.tar.gz or *.zip; it is a *.tar.gz file whenever one exists, and a *.zip
\* file only when no *.tar.gz file exists.
C9_TarGzBeforeZip ==
    artifact # NoFile =>
        /\ artifact \in DOMAIN bd.files
        /\ GlobMatch(artifact, PatTarGz) \/ GlobMatch(artifact, PatZip)
        /\ (\E n \in DOMAIN bd.files : GlobMatch(n, PatTarGz))
                => GlobMatch(artifact, PatTarGz)
        /\ GlobMatch(artifact, PatZip)
                => ~\E n \in DOMAIN bd.files : GlobMatch(n, PatTarGz)

C9_Witness ==
    /\ artifact = fTarGz
    /\ fZip \in DOMAIN bd.files
    /\ fTarGz \in DOMAIN bd.files

\* C10: Publishing is executed if and only if an output directory was given
\* and every earlier stage succeeded; it is then the last stage before Done;
\* after the copy the output directory holds the artifact's content under the
\* artifact's name; without an output directory nothing is copied.
C10_PublishIffAllSucceeded ==
    /\ pc \in Terminal =>
        (InTrace("Publishing") <=> (cfg.output /\ failed \ {"Publishing"} = {}))
    /\ (pc = "Done" /\ InTrace("Publishing")) =>
        trace[Len(trace) - 1] = "Publishing"
    /\ published =>
        /\ artifact \in DOMAIN out.files
        /\ out.files[artifact] = bd.files[artifact]
    /\ ~cfg.output => ~published

\* C11: with neither --extract nor --test, a run extracts nothing, creates
\* no extraction directory and validates nothing; with --test, a run whose
\* packaging succeeded extracts even without --extract, and validates the
\* extracted tree once extraction has produced one.
C11_VerifyOnlyOnRequest ==
    /\ [](/\ (~argv.extract /\ ~argv.test) =>
                /\ pc \notin {"Extracting", "Validating"}
                /\ ~InTrace("Extracting") /\ ~InTrace("Validating")
                /\ extractDir = 0
                /\ ~report.ran
          /\ (argv.test /\ artifact # NoFile) =>
                (pc = "Extracting" \/ InTrace("Extracting"))
          /\ (argv.test /\ extractDir # 0) =>
                (pc = "Validating" \/ InTrace("Validating"))
          /\ report.ran =>
                /\ argv.test /\ InTrace("Extracting") /\ extractDir # 0
                /\ report.found <=> (\E d \in tmpDirs[extractDir].dirs : Len(d) = 1))
    /\ [][(~argv.extract /\ ~argv.test) => tmpDirs' = tmpDirs]_vars

C11_Witness ==
    /\ argv.test /\ ~argv.extract
    /\ InTrace("Extracting") /\ InTrace("Validating")
    /\ report.ran /\ report.found

\* C12: a target that does not start with "package-" is resolved to
\* "package-" followed by the target, which then starts with the prefix
\* exactly once; a target that starts with it is left as it is; resolving
\* the resolved target changes nothing.
C12_NormalizeTarget ==
    pc # "Idle" =>
        /\ ~StartsWith(argv.target, Prefix) =>
            /\ cfg.target = Prefix \o argv.target
            /\ ~StartsWith(SubSeq(cfg.target, Len(Prefix) + 1, Len(cfg.target)), Prefix)
        /\ StartsWith(argv.target, Prefix) => cfg.target = argv.target
        /\ SubSeq(cfg.target, 1, Len(Prefix)) = Prefix
        /\ NormalizeTarget(cfg.target) = cfg.target

C12_Witness ==
    /\ pc # "Idle"
    /\ argv.target = tPackage
    /\ cfg.target = Prefix \o tPackage

\* C13: what test_package returns is False only when it found no package
\* directory: with a package directory it returns True whatever is missing.
C13_FailOnlyWithoutPackageDir ==
    (report.ran /\ ~report.raised) => (report.result <=> report.found)

RuleIdx(rule) ==
    CASE rule = "package" -> 1
      [] rule = "bin" -> 2
      [] rule = "plugins" -> 3
      [] rule = "config" -> 4
      [] rule = "readme" -> 5

C15_NoPackageDirectoryShortCircuits ==
    (report.ran /\ \A d \in tmpDirs[extractDir].dirs : Len(d) # 1) =>
        /\ report.findings = <<Finding("package", "fail", 0)>>
        /\ ~report.found
        /\ ~report.result
        /\ report.errors = 0
        /\ stdoutLines = (IF pc = "Done" THEN 2 ELSE 1)

C15_Witness ==
    /\ report.ran
    /\ tmpDirs[extractDir] = TreeFlat
    /\ report.findings = <<Finding("package", "fail", 0)>>

E2EScenario ==
    /\ argv.target = tMyApp
    /\ ~argv.clean /\ argv.extract /\ argv.test /\ ~argv.output

\* C16: against a build system that writes the cache marker on configure and
\* my_app-1.0.0.tar.gz (my_app/bin/my_app, my_app/README.txt) on the packaging
\* target, the run with target my_app, no clean, extract and test, no output
\* directory never fails, issues the packaging command for package-my_app,
\* copies nothing, finds nothing of severity fail, and reaches Done with
\* exit status 0.
C16_EndToEnd ==
    /\ [](E2EScenario =>
            /\ pc # "Failed"
            /\ failed = {}
            /\ \A i \in 1..Len(cmds) :
                cmds[i].cmd = "package" => cmds[i].target = tPackageMyApp
            /\ ~published /\ ~InTrace("Publishing") /\ pc # "Publishing"
            /\ \A i \in 1..Len(report.findings) : report.findings[i].sev # "fail"
            /\ pc = "Done" =>
                /\ rc = 0
                /\ artifact = fMyApp
                /\ \E i \in 1..Len(cmds) : cmds[i].cmd = "package"
                /\ report.findings = <<Finding("package", "pass", 0),
                                       Finding("bin", "pass", 1),
                                       Finding("readme", "pass", 0)>>)
    /\ E2EScenario ~> (E2EScenario /\ pc = "Done")

C16_Witness ==
    /\ E2EScenario
    /\ pc = "Done" /\ rc = 0
    /\ artifact = fMyApp
    /\ report.ran /\ report.found
    /\ cmds[Len(cmds)].target = tPackageMyApp

\* C17: Cleaning is executed only with --clean; a clean that returns leaves
\* no build directory; on an absent directory it changes nothing and does
\* not fail; cleaning twice leaves what cleaning once leaves.
C17_CleanIdempotent ==
    /\ [](/\ (pc = "Cleaning" \/ InTrace("Cleaning")) => argv.clean
          /\ ~CleanDir(bd).exists
          /\ CleanDir(CleanDir(bd)) = CleanDir(bd)
          /\ ~bd.exists => CleanDir(bd) = bd)
    /\ [][/\ (pc = "Cleaning" /\ pc' = "Configuring") =>
                (~bd'.exists /\ "Cleaning" \notin failed')
          /\ (pc = "Cleaning" /\ ~bd.exists /\ pc' # pc) =>
                (pc' = "Configuring" /\ bd' = bd /\ failed' = failed)]_vars

C17_Witness ==
    /\ argv.clean
    /\ trace = <<"Cleaning">>
    /\ pc = "Configuring"
    /\ ~bd.exists
    /\ runs = 2

\* C18: a run writes nothing to standard output.
C18_NothingOnStdout == stdoutLines = 0

\* C19: every build command carries a positive job count, the host's
\* processor count when -j was 0 or not given.
C19_JobsPositive ==
    \A i \in 1..Len(cmds) :
        cmds[i].cmd = "build" =>
            /\ cmds[i].jobs > 0
            /\ argv.jobs = 0 => cmds[i].jobs \in MoreCpuCounts

\* C20: once Configuring has been executed without failing, whether it issued
\* the configure command or found the cache marker, the build is the next
\* stage and its command is issued.
C20_BuildAlwaysIssued ==
    /\ (InTrace("Configuring") /\ "Configuring" \notin failed) =>
            (pc = "Building" \/ InTrace("Building"))
    /\ InTrace("Building") <=> \E i \in 1..Len(cmds) : cmds[i].cmd = "build"

C20_Witness ==
    /\ InTrace("Configuring")
    /\ cmds # <<>>
    /\ cmds[1].cmd = "build"

\* C21: within one run the configure command, the build command and the
\* packaging-target command are each issued at most once, in that order, and
\* a command that failed is the last command of the run: the run is Failed
\* and no step of it issues another command.
C21_NoStageRetried ==
    /\ [](/\ \A i, j \in 1..Len(cmds) :
                i < j => StageIdx(
                            IF cmds[i].cmd = "configure" THEN "Configuring"
                            ELSE IF cmds[i].cmd = "build" THEN "Building"
                            ELSE "Packaging")
                         < StageIdx(
                            IF cmds[j].cmd = "configure" THEN "Configuring"
                            ELSE IF cmds[j].cmd = "build" THEN "Building"
                            ELSE "Packaging")
          /\ \A c \in {"configure", "build", "package"} :
                Cardinality({i \in 1..Len(cmds) : cmds[i].cmd = c}) <= 1
          /\ \A i \in 1..Len(cmds) :
                cmds[i].res # "ok" => (i = Len(cmds) /\ pc = "Failed"))
    /\ [][(cmds # <<>> /\ cmds[Len(cmds)].res # "ok") => cmds' \in {cmds, <<>>}]_vars

C21_Witness ==
    /\ pc = "Failed"
    /\ argv.clean /\ argv.test /\ argv.output
    /\ Len(cmds) = 3
    /\ cmds[1].cmd = "configure" /\ cmds[1].res = "ok"
    /\ cmds[2].cmd = "build" /\ cmds[2].res = "ok"
    /\ cmds[3].cmd = "package" /\ cmds[3].res = "nonzero"

CleanSucceeded == argv.clean /\ InTrace("Cleaning") /\ "Cleaning" \notin failed

\* C22 as stated: in a run with --clean whose clean succeeded, the build
\* directory has no cache marker (and does not exist) when Configuring
\* starts, and Configuring re-creates the directory and issues the configure
\* command.
C22_CleanForcesConfigure ==
    CleanSucceeded =>
        /\ pc = "Configuring" => (~bd.cache /\ ~bd.exists)
        /\ InTrace("Configuring") =>
            /\ bd.exists
            /\ cmds # <<>>
            /\ cmds[1].cmd = "configure"

\* C22 as amended: in a run with --clean whose clean succeeded, the build
\* directory has no cache marker (and does not exist) when Configuring
\* starts, so Configuring never uses an existing configuration: it
\* re-creates the directory and then issues the configure command, or it
\* fails to re-create it and the run ends Failed with no command issued.
C22_CleanResetsConfigured ==
    /\ [](CleanSucceeded =>
            /\ pc = "Configuring" => (~bd.cache /\ ~bd.exists)
            /\ InTrace("Configuring") =>
                \/ /\ bd.exists
                   /\ cmds # <<>>
                   /\ cmds[1].cmd = "configure"
                \/ /\ ~bd.exists
                   /\ cmds = <<>>
                   /\ pc = "Failed"
                   /\ "Configuring" \in failed)
    /\ [][(CleanSucceeded /\ pc = "Configuring" /\ cmds' # cmds) =>
                (bd'.exists /\ cmds' = <<Command("configure", cmds'[1].res, <<>>, 0)>>)]_vars

\* the second run cleaned the configuration the first run left and
\* configured again
C22_Witness ==
    /\ runs = 2
    /\ CleanSucceeded
    /\ trace = <<"Cleaning", "Configuring">>
    /\ pc = "Building"
    /\ bd.exists /\ bd.cache
    /\ cmds = <<Command("configure", "ok", <<>>, 0)>>
    /\ cfgSinceClean = 1

\* C23: a step of Extracting or Validating leaves the build directory, the
\* selected artifact and the output directory as they were; Extracting adds
\* one new temporary directory and changes none of the earlier ones,
\* Validating changes no directory at all; the directory a run has extracted
\* into is still there when the run has ended.
C23_VerifyTouchesOnlyTmp ==
    /\ [][(pc \in {"Extracting", "Validating"}) =>
            /\ bd' = bd
            /\ artifact' = artifact
            /\ out' = out
            /\ tmpDirs' = (IF pc = "Extracting"
                            THEN Append(tmpDirs, tmpDirs'[Len(tmpDirs')])
                            ELSE tmpDirs)]_vars
    /\ [][SubSeq(tmpDirs', 1, Len(tmpDirs)) = tmpDirs]_vars
    /\ []((pc \in Terminal /\ extractDir # 0) => extractDir \in 1..Len(tmpDirs))

\* C24: the artifact a run has selected is a file this run's packaging
\* command wrote; in particular a run whose packaging command wrote no
\* archive has selected nothing.
C24_ArtifactIsThisRunsOutput ==
    artifact # NoFile => artifact \in packaged

\* C25: every artifact a run has selected is dispatched by extract_package
\* to an extractor: one matching *.tar.gz takes the tar branch, one matching
\* *.zip takes the zip branch, and none takes the unknown-format branch.
C25_DiscoveredArtifactIsDispatched ==
    artifact # NoFile =>
        /\ GlobMatch(artifact, PatTarGz) => ExtractBranch(artifact) = "tar"
        /\ GlobMatch(artifact, PatZip) => ExtractBranch(artifact) = "zip"
        /\ ExtractBranch(artifact) # "unknown"

====
